---- MODULE Spec2Model ----
(***************************************************************************)
(* Model of the tracker announce scheduler of tracker_scraper.go:          *)
(* trackerScraper.Run, announce, announceStopped, getIp and statusLine.    *)
(*                                                                         *)
(* Time is a discrete clock `now`, counted in ticks of 1/TicksPerSecond    *)
(* seconds.  A time.Time is the tick count since the zero time, a          *)
(* time.Duration is a number of ticks.                                     *)
(***************************************************************************)
EXTENDS Integers, Sequences, FiniteSets, TLC

(* ---------------------------- bounds ----------------------------------- *)
TicksPerSecond == 2
MaxMinutes == 2
MaxPeers == 1
MaxIps == 3
MaxWakeups == 2

(* ------------------------- time constants ------------------------------ *)
Second == TicksPerSecond
Minute == 60 * Second
HalfMinute == 30 * Second
\* the amounts by which the clock advances between two steps: half a
\* minute, or one tick (a fraction of a second) off a half-minute boundary
Deltas == {1, HalfMinute}
\* the zero value of time.Time
ZeroTime == 0
\* the clock starts after the zero time and runs for MaxMinutes
StartTime == ZeroTime + 1
MaxTime == StartTime + MaxMinutes * Minute

(* --------------------------- value sets -------------------------------- *)
NoErr == "nil"
Nil == "nil"
\* tracker.AnnounceEvent
Started == "Started"
None == "None"
Stopped == "Stopped"
\* res.Interval, in seconds, as reported by the tracker
TrackerIntervals == {0, 30, 90}
\* candidate addresses: two IPv4, two IPv6
IPs == {"v4a", "v4b", "v6a", "v6b"}
Schemes == {"udp4", "udp6", "http"}

\* the zero value of trackerAnnounceResult
ZeroResult == [Err |-> NoErr, NumPeers |-> 0, Interval |-> 0, Completed |-> ZeroTime]

Max(a, b) == IF a >= b THEN a ELSE b
Min(a, b) == IF a <= b THEN a ELSE b

\* all sequences over S of length at most n
SeqsUpTo(S, n) == UNION {[1..k -> S] : k \in 0..n}

(* ------------------------------ getIp ---------------------------------- *)
\* net.IP.To4: the 4-byte form of an IPv4 address, nil for any other
To4(a) == IF a \in {"v4a", "v4b"} THEN a ELSE Nil

\* the range loop of getIp; ip is the named result, assigned on each iteration
RECURSIVE getIpLoop(_, _, _, _, _)
getIpLoop(ips, i, ip, blocked, scheme) ==
    IF i > Len(ips)
    THEN [ip |-> ip, err |-> "no acceptable ips"]
    ELSE LET cur == ips[i] IN
         IF cur \in blocked
         THEN getIpLoop(ips, i + 1, cur, blocked, scheme)
         ELSE IF scheme = "udp4" /\ To4(cur) = Nil
         THEN getIpLoop(ips, i + 1, cur, blocked, scheme)
         ELSE IF scheme = "udp6" /\ To4(cur) # Nil
         THEN getIpLoop(ips, i + 1, cur, blocked, scheme)
         ELSE [ip |-> cur, err |-> NoErr]

\* getIp without the check for an empty lookup
getIp_NoEmptyCheck(lk, blocked, scheme) ==
    IF lk.err # NoErr
    THEN [ip |-> Nil, err |-> lk.err]
    ELSE getIpLoop(lk.ips, 1, Nil, blocked, scheme)

\* getIp: lk is the result of net.LookupIP, [err, ips]
getIp(lk, blocked, scheme) ==
    IF lk.err # NoErr
    THEN [ip |-> Nil, err |-> lk.err]
    ELSE IF Len(lk.ips) = 0
    THEN [ip |-> Nil, err |-> "no ips"]
    ELSE getIpLoop(lk.ips, 1, Nil, blocked, scheme)

(* ---------------------------- trackerUrl ------------------------------- *)
\* me.u.Hostname(), the name of the tracker
Hostname == "tracker.example"
\* me.u.Port(): empty when the URL has no explicit port
Ports == {"", "6969"}

\* net.JoinHostPort(ip.String(), port), as the host and the port of a URL
JoinHostPort(a, p) == [host |-> a, port |-> p]

\* trackerUrl: u is the URL as [scheme, host, port]
trackerUrl(u, a) ==
    IF u.port # ""
    THEN [scheme |-> u.scheme] @@ JoinHostPort(a, u.port)
    ELSE u

(* ---------------------------- statusLine ------------------------------- *)
\* the time field of statusLine: "anytime" or the remaining duration
\* truncated to whole seconds
statusTime(la, t) ==
    LET na == (la.Completed + la.Interval) - t IN
    IF na > 0
    THEN [kind |-> "duration", d |-> (na \div Second) * Second]
    ELSE [kind |-> "anytime", d |-> 0]

\* the outcome summary where an outcome without peers reads "never"
statusSummary_ZeroPeersNever(la) ==
    IF la.Err # NoErr
    THEN [kind |-> "error", text |-> la.Err, n |-> 0]
    ELSE IF la.NumPeers = 0
    THEN [kind |-> "never", text |-> "never", n |-> 0]
    ELSE [kind |-> "peers", text |-> "peers", n |-> la.NumPeers]

\* the outcome summary of statusLine: the error's text, "never", or "<n> peers"
statusSummary(la) ==
    IF la.Err # NoErr
    THEN [kind |-> "error", text |-> la.Err, n |-> 0]
    ELSE IF la.Completed = ZeroTime
    THEN [kind |-> "never", text |-> "never", n |-> 0]
    ELSE [kind |-> "peers", text |-> "peers", n |-> la.NumPeers]

(* ------------------------------ state ---------------------------------- *)
VARIABLES
    now,            \* the clock
    pc,             \* position of the Run goroutine
    e,              \* Run: the event of the next regular announce
    ar,             \* Run: result of the last call of announce
    lastAnnounce,   \* the trackerScraper's last-result cell
    interval,       \* Run: the effective interval of this wait
    wantPeers,      \* Run: the channel got from wantPeersEvent: "nil", "open" or "closed"
    event,          \* announce: the event parameter
    ret,            \* announce: the named result
    ip,             \* announce: the address got from getIp
    res,            \* announce: the tracker's response
    wantPeersEvent, \* t.wantPeersEvent is set
    closedEvent,    \* t.closed is set
    scheme,         \* u.Scheme
    lookup,         \* getIp on its own: the result of net.LookupIP
    blocklist,      \* getIp on its own: the addresses cl.ipIsBlocked rejects
    got,            \* getIp on its own: what it returned
    port,           \* u.Port()
    url,            \* trackerUrl on its own: what it returned
    held,           \* the session lock as Run holds it: "none", "r" or "w"
    session,        \* the session lock as another goroutine of the session holds it: "none", "r" or "w"
    status,         \* the status line that goroutine read last
    events,         \* history: the events passed to announce, in order
    ingested,       \* history: calls of AddPeers in the current attempt
    wakeups,        \* history: want-peers wake-ups of the wait since the last announce, up to MaxWakeups
    closedAt,       \* history: Len(events) when closed fired on the blocked select, else -1
    stores,         \* history: the writes of the last-result cell so far
    handed,         \* history: the size of the list the current attempt gave AddPeers, else -1
    closedInFlight, \* history: closed fired during the last regular attempt, and no announce began since
    path            \* history: the steps the current attempt has taken

vars == <<now, pc, e, ar, lastAnnounce, interval, wantPeers, event, ret, ip, res,
          wantPeersEvent, closedEvent, scheme, lookup, blocklist, got, port, url,
          events, ingested, wakeups, closedAt,
          stores, handed, closedInFlight, path, held, session, status>>

runVars == <<e, ar, lastAnnounce, interval, wantPeers>>
annVars == <<event, ret, ip, res>>
envVars == <<wantPeersEvent, closedEvent>>
ipVars == <<lookup, blocklist, got, port, url>>
histVars == <<events, ingested, wakeups, closedAt>>
obsVars == <<stores, handed, closedInFlight, path>>
lockVars == <<held, session, status>>

NoLookup == [err |-> NoErr, ips |-> <<>>]
NoGot == [ip |-> Nil, err |-> NoErr]
NoUrl == [scheme |-> "", host |-> "", port |-> ""]
NoStatus == [time |-> [kind |-> "", d |-> 0], summary |-> [kind |-> "", text |-> "", n |-> 0]]
NoRes == [Peers |-> 0, Interval |-> 0]

Init ==
    /\ now = StartTime
    /\ pc = "loop"
    /\ e = Started
    /\ ar = ZeroResult
    /\ lastAnnounce = ZeroResult
    /\ interval = 0
    /\ wantPeers = "nil"
    /\ event = Started
    /\ ret = ZeroResult
    /\ ip = Nil
    /\ res = NoRes
    /\ wantPeersEvent \in BOOLEAN
    /\ closedEvent = FALSE
    /\ scheme = "udp4"
    /\ lookup = NoLookup
    /\ blocklist = {}
    /\ got = NoGot
    /\ port = "6969"
    /\ url = NoUrl
    /\ events = <<>>
    /\ ingested = 0
    /\ wakeups = 0
    /\ closedAt = -1
    /\ stores = 0
    /\ handed = -1
    /\ closedInFlight = FALSE
    /\ path = <<>>
    /\ held = "none"
    /\ session = "none"
    /\ status = NoStatus

\* the positions of Run inside a call of announce
AnnouncePcs == {"getIp", "request", "requestLocked", "do", "addPeers", "stamp"}

(* ----------------------------- announce -------------------------------- *)
\* the lookups and blocklists an attempt of the loop may meet
RunLookups ==
    { [err |-> "lookup failed", ips |-> <<>>],
      [err |-> NoErr, ips |-> <<>>],
      [err |-> NoErr, ips |-> <<"v4a", "v6a">>] }
RunBlocklists == { {}, {"v4a", "v6a"} }

\* entry of announce without the default interval
AnnounceEnter_NoDefault(ev) ==
    /\ event' = ev
    /\ ret' = ZeroResult
    /\ ip' = Nil
    /\ res' = NoRes
    /\ events' = Append(events, ev)
    /\ ingested' = 0
    /\ wakeups' = 0
    /\ handed' = -1
    /\ closedInFlight' = FALSE
    /\ path' = <<>>
    /\ pc' = "getIp"
    /\ UNCHANGED <<now, runVars, envVars, scheme, ipVars, closedAt, stores, lockVars>>

\* entry of announce(ev): ret.Interval = time.Minute
AnnounceEnter(ev) ==
    /\ event' = ev
    /\ ret' = [ZeroResult EXCEPT !.Interval = Minute]
    /\ ip' = Nil
    /\ res' = NoRes
    /\ events' = Append(events, ev)
    /\ ingested' = 0
    /\ wakeups' = 0
    /\ handed' = -1
    /\ closedInFlight' = FALSE
    /\ path' = <<>>
    /\ pc' = "getIp"
    /\ UNCHANGED <<now, runVars, envVars, scheme, ipVars, closedAt, stores, lockVars>>

\* ip, err := me.getIp()
AnnounceGetIp ==
    /\ pc = "getIp"
    /\ path' = Append(path, "getIp")
    /\ \E lk \in RunLookups, blk \in RunBlocklists :
         LET r == getIp(lk, blk, scheme) IN
         IF r.err # NoErr
         THEN /\ ret' = [ret EXCEPT !.Err = "error getting ip: " \o r.err]
              /\ ip' = Nil
              /\ pc' = "stamp"
         ELSE /\ ret' = ret
              /\ ip' = r.ip
              /\ pc' = "request"
    /\ UNCHANGED <<now, runVars, event, res, envVars, scheme, ipVars, histVars, stores, handed, closedInFlight, lockVars>>

\* me.t.cl.rLock()
AnnounceRLock ==
    /\ pc = "request"
    /\ session # "w"
    /\ held' = "r"
    /\ pc' = "requestLocked"
    /\ UNCHANGED <<now, runVars, annVars, envVars, scheme, ipVars, histVars, obsVars, session, status>>

\* the request built without the rUnlock after it
AnnounceRequest_KeepsRLock ==
    /\ pc = "requestLocked"
    /\ held' = held
    /\ pc' = "do"
    /\ path' = Append(path, "announceRequest")
    /\ UNCHANGED <<now, runVars, annVars, envVars, scheme, ipVars, histVars, stores, handed, closedInFlight, session, status>>

\* req := me.t.announceRequest(event); me.t.cl.rUnlock()
AnnounceRequest ==
    /\ pc = "requestLocked"
    /\ held' = "none"
    /\ pc' = "do"
    /\ path' = Append(path, "announceRequest")
    /\ UNCHANGED <<now, runVars, annVars, envVars, scheme, ipVars, histVars, stores, handed, closedInFlight, session, status>>

\* res, err := tracker.Announce{...}.Do(), the error exit
AnnounceDoErr ==
    /\ pc = "do"
    /\ path' = Append(path, "Do")
    /\ ret' = [ret EXCEPT !.Err = "error announcing: tracker error"]
    /\ ip' = Nil
    /\ pc' = "stamp"
    /\ UNCHANGED <<now, runVars, event, res, envVars, scheme, ipVars, histVars, stores, handed, closedInFlight, lockVars>>

\* res, err := tracker.Announce{...}.Do(), with a response
AnnounceDoOk ==
    /\ pc = "do"
    /\ path' = Append(path, "Do")
    /\ \E n \in 0..MaxPeers, iv \in TrackerIntervals :
         res' = [Peers |-> n, Interval |-> iv]
    /\ pc' = "addPeers"
    /\ UNCHANGED <<now, runVars, event, ret, ip, envVars, scheme, ipVars, histVars, stores, handed, closedInFlight, lockVars>>

\* the success exit that hands no peers on when the event is Stopped
AnnounceAddPeers_NotWhenStopped ==
    /\ pc = "addPeers"
    /\ ingested' = IF event = Stopped THEN ingested ELSE ingested + 1
    /\ handed' = IF event = Stopped THEN handed ELSE res.Peers
    /\ path' = Append(path, "AddPeers")
    /\ ret' = [ret EXCEPT !.NumPeers = res.Peers, !.Interval = res.Interval * Second]
    /\ ip' = Nil
    /\ res' = NoRes
    /\ pc' = "stamp"
    /\ UNCHANGED <<now, runVars, event, envVars, scheme, ipVars, events, wakeups, closedAt, stores, closedInFlight, lockVars>>

\* the success exit that takes the tracker's seconds for a duration as they are
AnnounceAddPeers_RawSeconds ==
    /\ pc = "addPeers"
    /\ ingested' = ingested + 1
    /\ handed' = res.Peers
    /\ path' = Append(path, "AddPeers")
    /\ ret' = [ret EXCEPT !.NumPeers = res.Peers, !.Interval = res.Interval]
    /\ ip' = Nil
    /\ res' = NoRes
    /\ pc' = "stamp"
    /\ UNCHANGED <<now, runVars, event, envVars, scheme, ipVars, events, wakeups, closedAt, stores, closedInFlight, lockVars>>

\* me.t.AddPeers(...); ret.NumPeers = len(res.Peers); ret.Interval = res.Interval * time.Second
AnnounceAddPeers ==
    /\ pc = "addPeers"
    /\ ingested' = ingested + 1
    /\ handed' = res.Peers
    /\ path' = Append(path, "AddPeers")
    /\ ret' = [ret EXCEPT !.NumPeers = res.Peers, !.Interval = res.Interval * Second]
    /\ ip' = Nil
    /\ res' = NoRes
    /\ pc' = "stamp"
    /\ UNCHANGED <<now, runVars, event, envVars, scheme, ipVars, events, wakeups, closedAt, stores, closedInFlight, lockVars>>

\* the return of announce where Run goes on after the Stopped announce
AnnounceReturn_LoopsOn ==
    /\ pc = "stamp"
    /\ ret' = [ret EXCEPT !.Completed = now]
    /\ pc' = "store"
    /\ ar' = ret'
    /\ UNCHANGED <<now, e, lastAnnounce, interval, wantPeers, event, ip, res,
                   envVars, scheme, ipVars, histVars, obsVars, lockVars>>

\* the return of announce where a failed attempt ends Run
AnnounceReturn_StopsOnError ==
    /\ pc = "stamp"
    /\ ret' = [ret EXCEPT !.Completed = now]
    /\ IF event = Stopped \/ ret.Err # NoErr
       THEN pc' = "done" /\ ar' = ar
       ELSE pc' = "store" /\ ar' = ret'
    /\ UNCHANGED <<now, e, lastAnnounce, interval, wantPeers, event, ip, res,
                   envVars, scheme, ipVars, histVars, obsVars, lockVars>>

\* the return of announce that stamps the result of a success only
AnnounceReturn_StampOnSuccess ==
    /\ pc = "stamp"
    /\ ret' = IF ret.Err = NoErr THEN [ret EXCEPT !.Completed = now] ELSE ret
    /\ IF event = Stopped
       THEN pc' = "done" /\ ar' = ar
       ELSE pc' = "store" /\ ar' = ret'
    /\ UNCHANGED <<now, e, lastAnnounce, interval, wantPeers, event, ip, res,
                   envVars, scheme, ipVars, histVars, obsVars, lockVars>>

\* the deferred ret.Completed = time.Now(), and the return to the caller:
\* Run keeps the result in ar, announceStopped drops it and Run ends
AnnounceReturn ==
    /\ pc = "stamp"
    /\ ret' = [ret EXCEPT !.Completed = now]
    /\ IF event = Stopped
       THEN pc' = "done" /\ ar' = ar
       ELSE pc' = "store" /\ ar' = ret'
    /\ UNCHANGED <<now, e, lastAnnounce, interval, wantPeers, event, ip, res,
                   envVars, scheme, ipVars, histVars, obsVars, lockVars>>

(* -------------------------------- Run ---------------------------------- *)
\* ar := me.announce(e)
RunAnnounce ==
    /\ pc = "loop"
    /\ AnnounceEnter(e)

\* the lock before the store that leaves e at Started
RunLockStore_KeepsStarted ==
    /\ pc = "store"
    /\ session = "none"
    /\ held' = "w"
    /\ pc' = "storeLocked"
    /\ UNCHANGED <<now, lastAnnounce, e, ar, interval, wantPeers, annVars, envVars, scheme, ipVars, histVars, obsVars, session, status>>

\* going on to the store without the lock
RunLockStore_NoLock ==
    /\ pc = "store"
    /\ e' = None
    /\ held' = "none"
    /\ pc' = "storeLocked"
    /\ UNCHANGED <<now, lastAnnounce, ar, interval, wantPeers, annVars, envVars, scheme, ipVars, histVars, obsVars, session, status>>

\* e = tracker.None; me.t.cl.lock()
RunLockStore ==
    /\ pc = "store"
    /\ e' = None
    /\ session = "none"
    /\ held' = "w"
    /\ pc' = "storeLocked"
    /\ UNCHANGED <<now, lastAnnounce, ar, interval, wantPeers, annVars, envVars, scheme, ipVars, histVars, obsVars, session, status>>

\* a store that keeps the completion time of the cell
RunStore_Partial ==
    /\ pc = "storeLocked"
    /\ lastAnnounce' = [ar EXCEPT !.Completed = lastAnnounce.Completed]
    /\ stores' = stores + 1
    /\ held' = "none"
    /\ pc' = "wait"
    /\ UNCHANGED <<now, e, ar, interval, wantPeers, annVars, envVars, scheme, ipVars, histVars,
                   handed, closedInFlight, path, session, status>>

\* me.lastAnnounce = ar; me.t.cl.unlock()
RunStore ==
    /\ pc = "storeLocked"
    /\ lastAnnounce' = ar
    /\ stores' = stores + 1
    /\ held' = "none"
    /\ pc' = "wait"
    /\ UNCHANGED <<now, e, ar, interval, wantPeers, annVars, envVars, scheme, ipVars, histVars,
                   handed, closedInFlight, path, session, status>>

\* compute-wait without the floor of one minute
RunWait_NoFloor ==
    /\ pc = "wait"
    /\ interval' = ar.Interval
    /\ session = "none"
    /\ held' = "w"
    /\ pc' = "waitLocked"
    /\ UNCHANGED <<now, e, ar, lastAnnounce, wantPeers, annVars, envVars, scheme, ipVars, histVars, obsVars, session, status>>

\* wait: the floor of one minute; me.t.cl.lock()
RunWait ==
    /\ pc = "wait"
    /\ interval' = IF ar.Interval < Minute THEN Minute ELSE ar.Interval
    /\ session = "none"
    /\ held' = "w"
    /\ pc' = "waitLocked"
    /\ UNCHANGED <<now, e, ar, lastAnnounce, wantPeers, annVars, envVars, scheme, ipVars, histVars, obsVars, session, status>>

\* wantPeers := me.t.wantPeersEvent.C(); closed := me.t.closed.C(); me.t.cl.unlock()
RunReadSignals ==
    /\ pc = "waitLocked"
    /\ wantPeers' = IF wantPeersEvent THEN "closed" ELSE "open"
    /\ held' = "none"
    /\ pc' = "sel1"
    /\ UNCHANGED <<now, e, ar, lastAnnounce, interval, annVars, envVars, scheme, ipVars, histVars,
                   obsVars, session, status>>

\* the first select that leaves the want-peers channel armed
RunSelectWantPeers_StaysArmed ==
    /\ pc = "sel1"
    /\ IF wantPeers = "closed"
       THEN /\ interval' = IF interval > Minute THEN Minute ELSE interval
            /\ wantPeers' = wantPeers
       ELSE UNCHANGED <<interval, wantPeers>>
    /\ pc' = "sel2"
    /\ UNCHANGED <<now, e, ar, lastAnnounce, annVars, envVars, scheme, ipVars, histVars, obsVars, lockVars>>

\* the first select: case <-wantPeers, or default
RunSelectWantPeers ==
    /\ pc = "sel1"
    /\ IF wantPeers = "closed"
       THEN /\ interval' = IF interval > Minute THEN Minute ELSE interval
            /\ wantPeers' = "nil"
       ELSE UNCHANGED <<interval, wantPeers>>
    /\ pc' = "sel2"
    /\ UNCHANGED <<now, e, ar, lastAnnounce, annVars, envVars, scheme, ipVars, histVars, obsVars, lockVars>>

\* a timer that runs for the interval from the time of the select
Deadline_FromNow == now + interval

\* a timer set to the completion time alone
Deadline_NoInterval == ar.Completed

\* ar.Completed.Add(interval), the time the timer of the second select fires
Deadline == ar.Completed + interval

\* leaving the wait: interval and wantPeers go out of scope
LeaveWait(to) ==
    /\ pc' = to
    /\ interval' = 0
    /\ wantPeers' = "nil"

\* the second select finds closed ready: return
SelectClosed ==
    /\ pc = "sel2"
    /\ closedEvent
    /\ LeaveWait("return")
    /\ UNCHANGED <<now, e, ar, lastAnnounce, annVars, envVars, scheme, ipVars, histVars, obsVars, lockVars>>

\* the second select finds wantPeers ready: goto wait
SelectWantPeers ==
    /\ pc = "sel2"
    /\ wantPeers = "closed"
    /\ pc' = "wait"
    /\ wakeups' = Min(wakeups + 1, MaxWakeups)
    /\ UNCHANGED <<now, runVars, annVars, envVars, scheme, ipVars, events, ingested, closedAt, obsVars, lockVars>>

\* the second select finds the timer ready: next iteration
SelectTimer ==
    /\ pc = "sel2"
    /\ now >= Deadline
    /\ LeaveWait("loop")
    /\ UNCHANGED <<now, e, ar, lastAnnounce, annVars, envVars, scheme, ipVars, histVars, obsVars, lockVars>>

\* the second select finds no case ready and blocks
SelectBlock ==
    /\ pc = "sel2"
    /\ ~closedEvent
    /\ wantPeers # "closed"
    /\ pc' = "blocked"
    /\ UNCHANGED <<now, runVars, annVars, envVars, scheme, ipVars, histVars, obsVars, lockVars>>

\* the timer fires on the blocked select
TimerFires ==
    /\ pc = "blocked"
    /\ now >= Deadline
    /\ LeaveWait("loop")
    /\ UNCHANGED <<now, e, ar, lastAnnounce, annVars, envVars, scheme, ipVars, histVars, obsVars, lockVars>>

\* a deferred call that announces None
announceStopped_None ==
    /\ pc = "return"
    /\ AnnounceEnter(None)

\* defer me.announceStopped()
announceStopped ==
    /\ pc = "return"
    /\ AnnounceEnter(Stopped)

(* ---------------------------- the session ------------------------------ *)
\* t.closed is set; a select blocked on it takes that case
Close ==
    /\ ~closedEvent
    /\ closedEvent' = TRUE
    /\ closedInFlight' = (pc \in AnnouncePcs /\ event # Stopped)
    /\ IF pc = "blocked"
       THEN LeaveWait("return") /\ closedAt' = Len(events)
       ELSE UNCHANGED <<pc, interval, wantPeers, closedAt>>
    /\ UNCHANGED <<now, e, ar, lastAnnounce, annVars, wantPeersEvent, scheme, ipVars,
                   events, ingested, wakeups, stores, handed, path, lockVars>>

\* t.wantPeersEvent is set: its channel is closed; a select blocked on it
\* takes that case
SetWantPeers ==
    /\ ~wantPeersEvent
    /\ wantPeersEvent' = TRUE
    /\ wantPeers' = IF wantPeers = "open" THEN "closed" ELSE wantPeers
    /\ IF pc = "blocked" /\ wantPeers = "open"
       THEN pc' = "wait" /\ wakeups' = Min(wakeups + 1, MaxWakeups)
       ELSE UNCHANGED <<pc, wakeups>>
    /\ UNCHANGED <<now, e, ar, lastAnnounce, interval, annVars, closedEvent, scheme, ipVars,
                   events, ingested, closedAt, obsVars, lockVars>>

\* t.wantPeersEvent is cleared: the event gets a fresh channel, the old one
\* stays closed
ClearWantPeers ==
    /\ wantPeersEvent
    /\ wantPeersEvent' = FALSE
    /\ UNCHANGED <<now, pc, runVars, annVars, closedEvent, scheme, ipVars, histVars, obsVars, lockVars>>

\* time passes
Tick ==
    /\ \E d \in Deltas :
         /\ now + d <= MaxTime
         /\ (d < HalfMinute) => ((now - StartTime) % HalfMinute = 0)
         /\ now' = now + d
    /\ UNCHANGED <<pc, runVars, annVars, envVars, scheme, ipVars, histVars, obsVars, lockVars>>

Next ==
    \/ RunAnnounce
    \/ AnnounceGetIp
    \/ AnnounceRLock
    \/ AnnounceRequest
    \/ AnnounceDoErr
    \/ AnnounceDoOk
    \/ AnnounceAddPeers
    \/ AnnounceReturn
    \/ RunLockStore
    \/ RunStore
    \/ RunWait
    \/ RunReadSignals
    \/ RunSelectWantPeers
    \/ SelectClosed
    \/ SelectWantPeers
    \/ SelectTimer
    \/ SelectBlock
    \/ TimerFires
    \/ announceStopped
    \/ Close
    \/ SetWantPeers
    \/ ClearWantPeers
    \/ Tick

Spec == Init /\ [][Next]_vars

TypeOK ==
    /\ now \in 1..MaxTime
    /\ pc \in {"loop", "getIp", "request", "requestLocked", "do", "addPeers", "stamp",
               "store", "storeLocked", "wait", "waitLocked", "sel1", "sel2", "blocked",
               "return", "done"}
    /\ held \in {"none", "r", "w"}
    /\ session \in {"none", "r", "w"}
    /\ (held = "w") => (session = "none")
    /\ (session = "w") => (held = "none")
    /\ e \in {Started, None}
    /\ wantPeers \in {"nil", "open", "closed"}

(* ------------------------ fairness of the loop ------------------------- *)
\* the steps of the goroutine running Run
RunStep ==
    \/ RunAnnounce
    \/ AnnounceGetIp
    \/ AnnounceRLock
    \/ AnnounceRequest
    \/ AnnounceDoErr
    \/ AnnounceDoOk
    \/ AnnounceAddPeers
    \/ AnnounceReturn
    \/ RunLockStore
    \/ RunStore
    \/ RunWait
    \/ RunReadSignals
    \/ RunSelectWantPeers
    \/ SelectClosed
    \/ SelectWantPeers
    \/ SelectTimer
    \/ SelectBlock
    \/ TimerFires
    \/ announceStopped

\* The goroutine is scheduled and every call it makes returns; the clock
\* advances; a select does not pass over a ready case for ever.
LiveSpec ==
    /\ Init
    /\ [][Next]_vars
    /\ WF_vars(RunStep)
    /\ WF_vars(Tick)
    /\ SF_vars(SelectClosed)
    /\ SF_vars(SelectTimer \/ TimerFires)

(* --------------------------- properties -------------------------------- *)
WaitPcs == {"sel2", "blocked"}
Last(s) == s[Len(s)]

\* C1: the events passed to announce are Started once and first, then any
\* number of None, then Stopped once and last, after which Run has returned
\* or is in that last call.
C1_EventOrder ==
    /\ \A i \in 1..Len(events) :
         /\ (events[i] = Started) <=> (i = 1)
         /\ (events[i] = Stopped) => (i = Len(events))
    /\ (pc # "loop") => (events # <<>>)
    /\ (pc = "done") => (Len(events) >= 2 /\ Last(events) = Stopped)
    /\ (events # <<>> /\ Last(events) = Stopped) => (pc \in AnnouncePcs \cup {"done"})

C1_Witness ==
    /\ pc = "done"
    /\ events = <<Started, None, Stopped>>
    /\ lastAnnounce.Err # NoErr

\* C2: once closed fires on the blocked second select, the only announce
\* that follows is one Stopped announce, and Run ends without another wait.
C2_ClosedWhileBlocked ==
    (closedAt >= 0) =>
        /\ pc \in {"return", "done"} \cup AnnouncePcs
        /\ (pc = "return") => (Len(events) = closedAt)
        /\ (pc \in AnnouncePcs \cup {"done"}) =>
              (Len(events) = closedAt + 1 /\ Last(events) = Stopped /\ event = Stopped)

C2_Witness ==
    /\ closedAt >= 1
    /\ pc = "done"
    /\ Len(events) = closedAt + 1

\* C3, as stated: after a want-peers wake-up of a wait whose interval was
\* above one minute, the wait goes on with the deadline capped to
\* completed-at + one minute and with the want-peers case disabled.
C3_Original ==
    (pc \in WaitPcs /\ wakeups >= 1 /\ ar.Interval > Minute) =>
        (Deadline = ar.Completed + Minute /\ wantPeers = "nil")

\* C3, amended: the first select caps the interval to one minute and
\* disables the want-peers case exactly when the channel it read is closed
\* by then; after the cap the wait does not go back to compute-wait.
C3_CapWhenStillSet ==
    /\ [][(pc = "sel1" /\ pc' = "sel2") =>
             IF wantPeers = "closed"
             THEN interval' = Minute /\ wantPeers' = "nil"
             ELSE interval' = interval /\ wantPeers' = wantPeers]_vars
    /\ [][(pc \in WaitPcs /\ wantPeers = "nil") => (pc' # "wait")]_vars

C3_Witness ==
    /\ pc = "blocked"
    /\ wakeups = 1
    /\ ar.Interval > Minute
    /\ wantPeers = "nil"
    /\ interval = Minute

\* C4: a None announce begins no earlier than one minute after the
\* completion of the attempt before it, and a want-peers wake-up of the
\* wait goes to compute-wait without an announce.
C4_Floor ==
    /\ []((pc = "loop" /\ e = None) => (now >= ar.Completed + Minute))
    /\ [][(events' # events /\ event' = None) => (now >= ar.Completed + Minute)]_vars
    /\ [][(wakeups' # wakeups /\ wakeups' # 0) => (pc' = "wait" /\ events' = events)]_vars

C4_Witness ==
    /\ pc = "getIp"
    /\ event = None
    /\ ar.Interval > Minute
    /\ now = ar.Completed + Minute

\* C5: after a success with a tracker interval below one minute the wait
\* ends at completed-at + one minute; when the first select did not see
\* want-peers, the interval is max(outcome.interval, one minute).
C5_EffectiveInterval ==
    (pc \in WaitPcs) =>
        /\ (ar.Err = NoErr /\ ar.Interval < Minute) => (Deadline = ar.Completed + Minute)
        /\ (wantPeers # "nil") => (interval = Max(ar.Interval, Minute))

C5_Witness ==
    /\ pc = "blocked"
    /\ ar.Err = NoErr
    /\ ar.Interval = 0
    /\ wantPeers = "open"
    /\ Deadline = ar.Completed + Minute

FailureKinds ==
    { "error getting ip: lookup failed",
      "error getting ip: no ips",
      "error getting ip: no acceptable ips",
      "error announcing: tracker error" }

WaitEndsInTime == ar.Completed + Max(ar.Interval, Minute) <= MaxTime - HalfMinute

\* C7: Run ends only after closed was set; and a wait after a regular
\* attempt is followed by a further None announce, unless closed is set.
C7_OnlyClosedStops ==
    /\ [](pc \in {"return", "done"} => closedEvent)
    /\ [](events # <<>> /\ Last(events) = Stopped => closedEvent)
    /\ (pc \in {"store", "storeLocked", "wait", "waitLocked", "sel1", "sel2", "blocked"}
          /\ ~closedEvent /\ WaitEndsInTime)
          ~> (closedEvent \/ (pc = "getIp" /\ event = None))

C7_Witness ==
    /\ pc = "getIp"
    /\ event = None
    /\ ~closedEvent
    /\ ar.Err # NoErr
    /\ Len(events) = 3

StoppedCount == Cardinality({i \in 1..Len(events) : events[i] = Stopped})

\* C8: once closed is set Run ends, having made one Stopped announce, and
\* after the select saw closed it waits for nothing but that call.
C8_ClosedTerminates ==
    /\ closedEvent ~> (pc = "done")
    /\ [](pc = "done" => StoppedCount = 1)
    /\ [][(pc = "return") => (pc' = "return" \/ (pc' = "getIp" /\ event' = Stopped))]_vars
    /\ [][(pc \in AnnouncePcs /\ event = Stopped) => (pc' \in AnnouncePcs \cup {"done"})]_vars

C8_Witness ==
    /\ pc = "done"
    /\ closedEvent
    /\ closedAt = -1
    /\ StoppedCount = 1
    /\ Len(events) >= 3

(* -------------------------- getIp on its own --------------------------- *)
\* any result of net.LookupIP of at most MaxIps addresses, any blocklist,
\* any scheme
InitGetIp ==
    /\ now = StartTime
    /\ pc = "lookup"
    /\ e = Started
    /\ ar = ZeroResult
    /\ lastAnnounce = ZeroResult
    /\ interval = 0
    /\ wantPeers = "nil"
    /\ event = Started
    /\ ret = ZeroResult
    /\ ip = Nil
    /\ res = NoRes
    /\ wantPeersEvent = FALSE
    /\ closedEvent = FALSE
    /\ scheme \in Schemes
    /\ lookup \in [err : {NoErr, "lookup failed"}, ips : SeqsUpTo(IPs, MaxIps)]
    /\ blocklist \in SUBSET IPs
    /\ got = NoGot
    /\ port \in Ports
    /\ url = NoUrl
    /\ events = <<>>
    /\ ingested = 0
    /\ wakeups = 0
    /\ closedAt = -1
    /\ stores = 0
    /\ handed = -1
    /\ closedInFlight = FALSE
    /\ path = <<>>
    /\ held = "none"
    /\ session = "none"
    /\ status = NoStatus

\* ip, err := me.getIp()
CallGetIp ==
    /\ pc = "lookup"
    /\ got' = getIp(lookup, blocklist, scheme)
    /\ pc' = "gotIp"
    /\ UNCHANGED <<now, runVars, annVars, envVars, scheme, lookup, blocklist, port, url, histVars, obsVars, lockVars>>

\* TrackerUrl: me.trackerUrl(ip), with the address getIp gave
CallTrackerUrl ==
    /\ pc = "gotIp"
    /\ got.err = NoErr
    /\ url' = trackerUrl([scheme |-> scheme, host |-> Hostname, port |-> port], got.ip)
    /\ pc' = "gotUrl"
    /\ UNCHANGED <<now, runVars, annVars, envVars, scheme, lookup, blocklist, got, port,
                   histVars, obsVars, lockVars>>

NextGetIp ==
    \/ CallGetIp
    \/ CallTrackerUrl

SpecGetIp == InitGetIp /\ [][NextGetIp]_vars

\* an address of the family the scheme asks for
FamilyMatches(a, sch) ==
    CASE sch = "udp4" -> a \in {"v4a", "v4b"}
      [] sch = "udp6" -> a \notin {"v4a", "v4b"}
      [] OTHER -> TRUE

\* the places in the lookup of the addresses that pass both filters
Acceptable == {i \in 1..Len(lookup.ips) :
                 lookup.ips[i] \notin blocklist /\ FamilyMatches(lookup.ips[i], scheme)}

\* C9: getIp returns the first address in lookup order that is not blocked
\* and of the scheme's family; it fails with the lookup's error or "no ips"
\* exactly when the lookup fails or is empty, and with "no acceptable ips"
\* exactly when there are addresses and the filters reject them all.
C9_GetIp ==
    (pc = "gotIp") =>
        /\ (got.err \in {"lookup failed", "no ips"})
              <=> (lookup.err # NoErr \/ Len(lookup.ips) = 0)
        /\ (got.err = "lookup failed") <=> (lookup.err # NoErr)
        /\ (got.err = "no acceptable ips")
              <=> (lookup.err = NoErr /\ Len(lookup.ips) > 0 /\ Acceptable = {})
        /\ (got.err = NoErr)
              <=> (lookup.err = NoErr /\ Acceptable # {})
        /\ (got.err = NoErr) =>
              (\E i \in Acceptable :
                  /\ got.ip = lookup.ips[i]
                  /\ \A j \in Acceptable : i <= j)

C9_Witness ==
    /\ pc = "gotIp"
    /\ lookup = [err |-> NoErr, ips |-> <<"v4b", "v4a", "v6a">>]
    /\ blocklist = {"v4b"}
    /\ scheme = "udp4"
    /\ got = [ip |-> "v4a", err |-> NoErr]

(* ------------------------ statusLine and Run --------------------------- *)
\* a time left, as a time field: whole seconds, or "anytime" when none is left
TimeField(left) ==
    IF left > 0
    THEN [kind |-> "duration", d |-> (left \div Second) * Second]
    ELSE [kind |-> "anytime", d |-> 0]

\* C10: while Run waits, the time field of the status line is the time left
\* to the deadline Run waits on, in whole seconds, and "anytime" when that
\* time has passed; it is "anytime" when no attempt has been stored.
C10_StatusIsDeadline ==
    /\ (pc \in WaitPcs) => (statusTime(lastAnnounce, now) = TimeField(Deadline - now))
    /\ (lastAnnounce.Completed = ZeroTime) => (statusTime(lastAnnounce, now).kind = "anytime")

(* ------------------- the status line's outcome summary ----------------- *)
\* C11: the outcome summary is "never" exactly while nothing has been
\* stored; after a store it is the error's text when the stored attempt
\* failed, and "<peer-count> peers" with the stored count otherwise.
C11_Summary ==
    LET s == statusSummary(lastAnnounce) IN
    /\ (stores = 0) => (lastAnnounce = ZeroResult /\ s.kind = "never")
    /\ (stores > 0) =>
          /\ s.kind # "never"
          /\ (lastAnnounce.Err # NoErr) => (s.kind = "error" /\ s.text = lastAnnounce.Err)
          /\ (lastAnnounce.Err = NoErr) => (s.kind = "peers" /\ s.n = lastAnnounce.NumPeers)

C11_Witness ==
    /\ stores >= 1
    /\ lastAnnounce.Err = NoErr
    /\ lastAnnounce.NumPeers = 0
    /\ statusSummary(lastAnnounce) = [kind |-> "peers", text |-> "peers", n |-> 0]

(* --------------------------- one attempt ------------------------------- *)
\* the steps of an attempt on each of its exit paths
ExitPaths ==
    { <<"getIp">>,
      <<"getIp", "announceRequest", "Do">>,
      <<"getIp", "announceRequest", "Do", "AddPeers">> }

\* C12: a call of announce gives one outcome, stamped with the time of the
\* return on every exit path; nothing is stamped before, and the clock does
\* not run backwards, so the stamp is not earlier than any step of the call.
C12_Stamp ==
    /\ [](pc \in AnnouncePcs => ret.Completed = ZeroTime)
    /\ [][(pc \in AnnouncePcs /\ pc' \notin AnnouncePcs) =>
             /\ pc = "stamp"
             /\ path \in ExitPaths
             /\ ret' = [ret EXCEPT !.Completed = now]]_vars
    /\ [][now' >= now]_vars
    /\ [](pc \in {"store", "done"} => (ret.Completed > ZeroTime /\ ret.Completed <= now))
    /\ [](pc = "store" => ar = ret)

C12_Witness ==
    /\ pc = "store"
    /\ ret.Err = "error getting ip: no ips"
    /\ path = <<"getIp">>
    /\ ret.Completed = now
    /\ now > StartTime

\* C13: a successful attempt hands the tracker's peers to AddPeers once,
\* before it returns; its outcome has no error, the size of that list as
\* peer count and the tracker's seconds as interval.
C13_Success ==
    /\ []((pc \in {"stamp", "store", "done"} /\ ret.Err = NoErr) =>
             /\ ingested = 1
             /\ handed = ret.NumPeers
             /\ path = <<"getIp", "announceRequest", "Do", "AddPeers">>
             /\ \E iv \in TrackerIntervals : ret.Interval = iv * Second)
    /\ [][(pc = "addPeers" /\ pc' # pc) =>
             /\ pc' = "stamp"
             /\ handed' = res.Peers
             /\ ingested' = ingested + 1
             /\ ret' = [ret EXCEPT !.NumPeers = res.Peers, !.Interval = res.Interval * Second]
             /\ ret'.Err = NoErr]_vars

C13_Witness ==
    /\ pc = "store"
    /\ ret.Err = NoErr
    /\ ingested = 1
    /\ handed = 1
    /\ ar.NumPeers = 1
    /\ ar.Interval = 90 * Second

(* ------------------------------ trackerUrl ----------------------------- *)
\* C14: the host of the URL trackerUrl builds is the resolved address, and
\* its port is the port of the tracker's URL, given or not.
C14_TrackerUrl ==
    (pc = "gotUrl") =>
        /\ url.host = got.ip
        /\ url.port = port
        /\ url.scheme = scheme

(* ----------------------- closed during an attempt ---------------------- *)
\* C15: when closed fired while a regular attempt was in flight, the next
\* announce to begin is the Stopped one, also when the deadline of the wait
\* has passed by the time of the second select.
C15_StoppedAfterInFlightClose ==
    [][(closedInFlight /\ events' # events) => (event' = Stopped)]_vars

(* ------------------- the session lock and its other users -------------- *)
\* another goroutine of the session takes the lock, for reading or writing
SessionLock(k) ==
    /\ session = "none"
    /\ (k = "w") => (held = "none")
    /\ (k = "r") => (held # "w")
    /\ session' = k
    /\ UNCHANGED <<now, pc, runVars, annVars, envVars, scheme, ipVars, histVars, obsVars, held, status>>

\* that goroutine releases the lock and is done with the line it wrote
SessionUnlock ==
    /\ session # "none"
    /\ session' = "none"
    /\ status' = NoStatus
    /\ UNCHANGED <<now, pc, runVars, annVars, envVars, scheme, ipVars, histVars, obsVars, held>>

\* that goroutine calls statusLine, holding the lock
StatusLine ==
    /\ session # "none"
    /\ status = NoStatus
    /\ status' = [time |-> statusTime(lastAnnounce, now), summary |-> statusSummary(lastAnnounce)]
    /\ UNCHANGED <<now, pc, runVars, annVars, envVars, scheme, ipVars, histVars, obsVars, held, session>>

NextLock ==
    \/ Next
    \/ \E k \in {"r", "w"} : SessionLock(k)
    \/ SessionUnlock
    \/ StatusLine

LockSpec == Init /\ [][NextLock]_vars

(* -------------------------- the last-result cell ----------------------- *)
\* C16: the cell holds its zero value until the first store, then the whole
\* outcome of the last regular attempt; each regular attempt is stored once,
\* before its wait begins; the Stopped attempt leaves the cell as it is.
C16_Cell ==
    /\ []((stores = 0) => (lastAnnounce = ZeroResult))
    /\ []((stores > 0 /\ pc \notin {"store", "storeLocked"}) => (lastAnnounce = ar))
    /\ [][(lastAnnounce' # lastAnnounce \/ stores' # stores) =>
             /\ pc = "storeLocked"
             /\ event # Stopped
             /\ ar = ret
             /\ lastAnnounce' = ar
             /\ stores' = stores + 1]_vars
    /\ [](pc \in {"wait", "waitLocked", "sel1", "sel2", "blocked", "return", "loop"}
             => (stores = Len(events)))
    /\ []((pc \in AnnouncePcs \cup {"done"} /\ event = Stopped) => (stores = Len(events) - 1))

C16_Witness ==
    /\ pc = "done"
    /\ stores = 2
    /\ lastAnnounce = ar
    /\ lastAnnounce.Err = NoErr
    /\ ret.Err # NoErr

BlockingPcs == {"getIp", "do", "sel2", "blocked"}

\* C18: Run holds the lock only between a lock and the unlock that follows
\* it, never where it blocks; while it blocks, another goroutine of the
\* session can take the lock, for reading or writing.
C18_NoLockWhileBlocked ==
    /\ (pc \in BlockingPcs) => (held = "none")
    /\ (held = "r") <=> (pc = "requestLocked")
    /\ (held = "w") <=> (pc \in {"storeLocked", "waitLocked"})
    /\ (pc \in BlockingPcs /\ session = "none") =>
          (ENABLED SessionLock("w") /\ ENABLED SessionLock("r"))

C18_Witness ==
    /\ pc = "do"
    /\ session = "w"
    /\ held = "none"
    /\ stores = 1

(* ------------------------ the wait within a cycle ---------------------- *)
CyclePcs == {"wait", "waitLocked", "sel1", "sel2", "blocked"}

\* C19: from the first computation of a cycle on, the deadline of the wait
\* does not grow: a recomputation gives an interval not above the one
\* before, and a capped interval stays capped when want-peers is cleared.
C19_DeadlineNeverGrows ==
    /\ [][(pc \in CyclePcs /\ pc' \in CyclePcs /\ ~(pc = "wait" /\ wakeups = 0 /\ pc' # pc))
             => (Deadline' <= Deadline /\ interval' <= interval)]_vars
    /\ []((pc \in WaitPcs /\ wantPeers = "nil") => (interval = Minute))

C19_Witness ==
    /\ pc = "blocked"
    /\ wakeups >= 1
    /\ ar.Interval > Minute
    /\ wantPeers = "nil"
    /\ ~wantPeersEvent
    /\ Deadline = ar.Completed + Minute

(* --------------------------- the last attempt -------------------------- *)
\* C20: the Stopped attempt takes the steps of any attempt: it resolves an
\* address, builds the request under the read lock, and on a success hands
\* the peers to AddPeers, closed being set; its outcome goes nowhere.
C20_StoppedAttempt ==
    /\ []((event = Stopped /\ pc \in {"stamp", "done"}) =>
             (path \in ExitPaths /\ path[1] = "getIp" /\ closedEvent))
    /\ []((event = Stopped /\ pc = "requestLocked") => (held = "r"))
    /\ []((event = Stopped /\ pc \in {"stamp", "done"} /\ ret.Err = NoErr) =>
             (ingested = 1 /\ handed = ret.NumPeers))
    /\ [][(event' = Stopped) =>
             (ar' = ar /\ lastAnnounce' = lastAnnounce /\ stores' = stores)]_vars

C20_Witness ==
    /\ pc = "done"
    /\ event = Stopped
    /\ ret.Err = NoErr
    /\ ingested = 1
    /\ handed = 1
    /\ ar.Err # NoErr
    /\ lastAnnounce = ar
====
